---- MODULE Spec2Model ----
(***************************************************************************)
(* A model of SIMURAN's batch runner (simuran/main/batch_main.py), of the  *)
(* orchestrator pass (main/main.py) and of the lazy recording container    *)
(* (simuran/recording_container.py), with the round trip of a parameter    *)
(* store as tests/test_recording.py exercises it.                          *)
(*                                                                         *)
(* Python values are modelled as records with a "tag" field, lists as      *)
(* sequences, paths as sequences of components and file names as sequences *)
(* of tokens whose last token is the extension.  List indexes are 0-based  *)
(* as in the source; element k of a Python list is element k + 1 of the    *)
(* sequence that models it.                                                *)
(***************************************************************************)
EXTENDS Integers, Sequences, FiniteSets, TLC

\* ------------------------------------------------------------------ bounds
\* The longest run_list a run-configuration file holds.
MaxRuns == 3
\* The most recordings a container holds.
MaxRecs == 2
\* The most get calls made on one container.
MaxGets == 3
\* The longest list of analysis functions a pass is given.
MaxFns == 2
\* The most files a scan of the start directory finds.
MaxFiles == 3
\* The most setup calls made on one container.
MaxSetups == 2
\* The most batch_run calls whose cache entries are compared.
MaxCalls == 2
\* The longest list a configuration value holds.
MaxListLen == 3

\* ------------------------------------------------------- Python constants
PyNone == [tag |-> "None"]
Unbound == [tag |-> "Unbound"]
NoFile == [tag |-> "NoFile"]
NoIdx == -1

Raised(exc) == [tag |-> "raised", exc |-> exc]
PyList(items) == [tag |-> "list", items |-> items]
Last(s) == s[Len(s)]
Front(s) == SubSeq(s, 1, Len(s) - 1)

\* ------------------------------------------------------------------ state
VARIABLES
    pickles,              \* the file system: pickle path -> file content
    bpc,                  \* where batch_run / batch_main stands
    args,                 \* batch_run's arguments
    run_dict,             \* ParamHandler read from run_dict_loc
    run_dict_list,        \* the list batch_main iterates (mutated by pop)
    i,                    \* batch_main's loop variable
    results,              \* batch_main's local `results`
    recording_container,  \* batch_main's local `recording_container`
    all_info,             \* the aggregate
    events,               \* what this batch_run call has done, in order
    returned,             \* what this batch_run call returned or raised
    pickles_at_call,      \* history: the pickles when this call began
    prev_call             \* history: the batch_run call completed before

batchVars == <<pickles, bpc, args, run_dict, run_dict_list, i, results,
               recording_container, all_info, events, returned,
               pickles_at_call, prev_call>>

VARIABLES
    container,            \* RecordingContainer: the stored sequence
    load_on_fly,          \* RecordingContainer.load_on_fly
    last_loaded,          \* RecordingContainer.last_loaded
    last_loaded_idx,      \* RecordingContainer.last_loaded_idx
    base_dir,             \* RecordingContainer.base_dir
    next_oid,             \* the identity the next new object gets
    get_log               \* history: the get calls made, in order

contVars == <<container, load_on_fly, last_loaded, last_loaded_idx, base_dir,
              next_oid, get_log>>

VARIABLES
    mpc,                  \* where main stands
    m_in,                 \* main's arguments and what it finds on disk
    mi,                   \* main's loop variable i
    function_args,        \* main's local `function_args`
    recording,            \* main's local `recording` (a reference)
    fns_to_run,           \* AnalysisHandler: the bound functions
    handler_results,      \* AnalysisHandler.results
    m_events,             \* what this pass has done, in order
    summary,              \* the summary table written, if any
    m_exit                \* how main ended

mainVars == <<mpc, m_in, mi, function_args, recording, fns_to_run,
              handler_results, m_events, summary, m_exit>>

VARIABLES
    disk,                 \* the files a scan of the start directory finds
    setup_log,            \* history: the setup calls made on the container
    cache_calls,          \* history: batch_run calls and their cache entry
    ph_params,            \* ParamHandler.params of the store that writes
    ph_file,              \* the script ParamHandler.write left on disk
    ph_read               \* ParamHandler.params of the store that read it

auxVars == <<disk, setup_log, cache_calls, ph_params, ph_file, ph_read>>

vars == <<batchVars, contVars, mainVars, auxVars>>

\* ------------------------------------------------------------------ paths
\* os.path.dirname / os.path.basename on a path given as its components.
Dirname(p) == Front(p)
Basename(p) == Last(p)
\* os.path.splitext(name)[0]: the name without its extension token.
SplitextStem(name) == Front(name)
\* abspath(join(d, "..", sub)): d's parent followed by sub.
ParentJoin(d, sub) == Append(Front(d), sub)

\* batch_run's out_dir.
OutDir(run_dict_loc) == ParentJoin(Dirname(run_dict_loc), "sim_results")

\* batch_run's fn_name.
FnName(function_to_use) ==
    IF function_to_use = PyNone THEN <<>>
    ELSE <<"--">> \o Basename(function_to_use.path)

PickleNameOfFullPaths(run_dict_loc, function_to_use) ==
    Append(OutDir(run_dict_loc),
           run_dict_loc \o (IF function_to_use = PyNone THEN <<>>
                            ELSE <<"--">> \o function_to_use.path)
               \o <<"_dump", ".pickle">>)

\* batch_run's pickle_name.
PickleName(run_dict_loc, function_to_use) ==
    Append(OutDir(run_dict_loc),
           SplitextStem(Basename(run_dict_loc)) \o FnName(function_to_use)
               \o <<"_dump", ".pickle">>)

\* ----------------------------------------------------------------- inputs
\* Run-configuration files batch_run may be pointed at.
RunLocs == { <<"proj", "cfg", <<"run", ".py">> >> }

FnPath(p) == [tag |-> "path", path |-> p]
FunctionsToUse == { PyNone }

AfterBatchFns == { PyNone, [tag |-> "str", s |-> "save"], [tag |-> "callable"] }

PickleNames == { PickleName(l, f) : l \in RunLocs, f \in FunctionsToUse }

\* The run dict at position k of a run_list.
RunDictAt(k) ==
    [batch_param_loc |-> <<"data", k>>,
     fn_param_loc |-> <<"proj", "fns", <<"default", ".py">> >>]

RunListOfLen(n) == [k \in 1..n |-> RunDictAt(k - 1)]

\* What a run-configuration file may hold.
RunConfigs ==
    [run_list : { RunListOfLen(n) : n \in 0..MaxRuns },
     after_batch_fn : AfterBatchFns,
     keep_all_data : {FALSE}]

BatchArgs ==
    [run_dict_loc : RunLocs,
     function_to_use : FunctionsToUse,
     idx : {NoIdx, 1},
     handle_errors : BOOLEAN,
     overwrite : BOOLEAN,
     merge : BOOLEAN,
     only_check : BOOLEAN]

\* ------------------------------------------------- one orchestrator pass
LocationKinds == {"dir", "file", "missing"}

\* What the callables main uses do: whether sort_fn raises on a recording
\* and, in the first iteration in which anything raises, whether it is
\* args_fn, load() or an analysis function.
MainRaises ==
    [sort_fn : BOOLEAN, args_fn : BOOLEAN, load : BOOLEAN, analysis : BOOLEAN]

\* How main ends, from what it is given (besides the location and the
\* batch-setup flags: whether args_fn and sort_container_fn are functions
\* or None, load_all, and whether the scan finds any recording) and from
\* what the callables do, in the order of its lines: a
\* ValueError for a location that is not what it must be (lines 22, 47),
\* SystemExit from exit(-1) when the batch-setup step was only checking
\* (line 35), the ValueError of the sort function (line 50) and, in the
\* loop over the recordings, the exception of args_fn (line 56), the
\* UnboundLocalError of function_args when args_fn is None (line 61), the
\* exception of load() (line 63) and that of an analysis function
\* (line 69); a normal return otherwise.
MainOutcome(location_kind, do_batch_setup, only_check, given, raises) ==
    IF do_batch_setup /\ location_kind # "dir" THEN "ValueError"
    ELSE IF do_batch_setup /\ only_check THEN "SystemExit"
    ELSE IF location_kind = "missing" THEN "ValueError"
    ELSE IF given.sort_container_fn /\ given.recordings /\ raises.sort_fn
    THEN "ValueError"
    ELSE IF ~given.recordings THEN "ok"
    ELSE IF given.args_fn /\ raises.args_fn THEN "ArgsError"
    ELSE IF ~given.args_fn THEN "UnboundLocalError"
    ELSE IF given.load_all /\ raises.load THEN "LoadError"
    ELSE IF raises.analysis THEN "Exception"
    ELSE "ok"

\* simuran.main.main.run: one pass for (batch_param_loc, fn_param_loc); it
\* returns (results, recording_container) or lets main's exception through.
RunResults(batch_param_loc, fn_param_loc) ==
    [tag |-> "results", of |-> batch_param_loc, fn |-> fn_param_loc]
RunContainer(batch_param_loc) ==
    [tag |-> "container", of |-> batch_param_loc]
\* recording_container.get_property("source_file")
GetPropertySourceFile(rc) ==
    [tag |-> "source_files", of |-> rc.of]

PyTuple(a, b) == [tag |-> "tuple", fst |-> a, snd |-> b]

\* pickle.dump / pickle.load: the file holds a serialized copy of the object.
PickleDump(obj) == [tag |-> "pickle", bytes |-> obj]
PickleLoad(file) == file.bytes

\* ------------------------------------------------------------- batch_main
\* dict.pop(key) on a run dict: the dict without the key.
DictPop(d, key) == [k \in (DOMAIN d) \ {key} |-> d[k]]

\* get_dict_entry(index): pops both path keys off run_dict_list[index].
GetDictEntry(list, index, function_to_use) ==
    IF index >= Len(list) THEN [exc |-> "IndexError", list |-> list]
    ELSE LET rd == list[index + 1] IN
         IF "batch_param_loc" \notin DOMAIN rd
         THEN [exc |-> "KeyError", list |-> list]
         ELSE IF "fn_param_loc" \notin DOMAIN rd
         THEN [exc |-> "KeyError",
               list |-> [list EXCEPT ![index + 1] = DictPop(rd, "batch_param_loc")]]
         ELSE [exc |-> "none",
               list |-> [list EXCEPT ![index + 1] =
                            DictPop(DictPop(rd, "batch_param_loc"), "fn_param_loc")],
               batch_param_loc |-> rd.batch_param_loc,
               fn_param_loc |-> IF function_to_use # PyNone
                                THEN function_to_use.path
                                ELSE rd.fn_param_loc]

CatchesRunErrorAlways(handle_errors) == TRUE

\* Whether batch_main catches what run raises.
CatchesRunError(handle_errors) == handle_errors

\* The body of batch_main's loop after get_dict_entry: the call of run under
\* the error policy, then the append to all_info.  `outcome` is how the pass
\* ended; loc and fn are what get_dict_entry returned.
LoopBody(handle_errors, save_info, keep_container, outcome, index, loc, fn, res, cont, info) ==
    LET ran == outcome = "ok"
        caught == outcome # "ok" /\ CatchesRunError(handle_errors)
        res1 == IF ran THEN RunResults(loc, fn) ELSE res
        cont1 == IF ran THEN RunContainer(loc) ELSE cont
        logged == IF caught
                  THEN <<[e |-> "log", i |-> index, loc |-> loc, exc |-> outcome]>>
                  ELSE <<>>
    IN  IF outcome # "ok" /\ ~caught
        THEN [exc |-> outcome, results |-> res, recording_container |-> cont,
              all_info |-> info, logged |-> <<>>]
        ELSE IF ~save_info
        THEN [exc |-> "none", results |-> res1, recording_container |-> cont1,
              all_info |-> info, logged |-> logged]
        ELSE IF res1 = Unbound \/ cont1 = Unbound
        THEN [exc |-> "UnboundLocalError", results |-> res1,
              recording_container |-> cont1, all_info |-> info, logged |-> logged]
        ELSE [exc |-> "none", results |-> res1, recording_container |-> cont1,
              all_info |-> PyList(Append(info.items,
                  IF keep_container THEN PyTuple(res1, cont1)
                  ELSE PyTuple(res1, GetPropertySourceFile(cont1)))),
              logged |-> logged]

\* -------------------------------------------------------------- batch_run
UseCacheOverwriteInverted(idx, only_check, isfile, overwrite) ==
    (idx = NoIdx) /\ ~only_check /\ isfile /\ overwrite

\* The condition under which batch_run loads the pickle instead of running.
UseCache(idx, only_check, isfile, overwrite) ==
    (idx = NoIdx) /\ ~only_check /\ isfile /\ ~overwrite

\* batch_main's save_info argument.
SaveInfo(after_batch_function) == after_batch_function # PyNone

ShouldPersistAnyIdx(only_check, idx) == ~only_check

\* Whether batch_run writes the pickle (and merges) after batch_main.
ShouldPersist(only_check, idx) == ~only_check /\ (idx = NoIdx)

ShouldCallAfterNotNone(only_check, after_batch_function) ==
    ~only_check /\ after_batch_function # PyNone

\* Whether batch_run invokes after_batch_function.
ShouldCallAfter(only_check, after_batch_function) ==
    /\ ~only_check
    /\ after_batch_function # PyNone
    /\ after_batch_function # [tag |-> "str", s |-> "save"]

ShouldMergeAlways(merge) == TRUE

\* Whether batch_run consolidates the outputs after writing the pickle.
ShouldMerge(merge) == merge

SingleIndexNever(idx) == FALSE

\* Whether batch_main runs the pass of one selected index only.
SingleIndex(idx) == idx # NoIdx

pickle_name == PickleName(args.run_dict_loc, args.function_to_use)
out_dir == OutDir(args.run_dict_loc)
IsFile(path) == pickles[path] # NoFile

Ev(name) == [e |-> name]
RunEv(index, loc, fn, outcome) ==
    [e |-> "run", i |-> index, loc |-> loc, fn |-> fn, outcome |-> outcome]

NoCall == [tag |-> "None"]

\* Nothing has been scanned, set up, keyed or written yet.
AuxIdle ==
    /\ disk = <<>>
    /\ setup_log = <<>>
    /\ cache_calls = <<>>
    /\ ph_params = PyNone
    /\ ph_file = NoFile
    /\ ph_read = PyNone

BatchInit ==
    /\ pickles = [p \in PickleNames |-> NoFile]
    /\ bpc = "idle"
    /\ args = PyNone
    /\ run_dict = PyNone
    /\ run_dict_list = <<>>
    /\ i = 0
    /\ results = Unbound
    /\ recording_container = Unbound
    /\ all_info = Unbound
    /\ events = <<>>
    /\ returned = PyNone
    /\ pickles_at_call = pickles
    /\ prev_call = NoCall

\* batch_run raises: the exception leaves it, nothing after the raise runs.
Raise(exc) ==
    /\ bpc' = "br_done"
    /\ returned' = Raised(exc)
    /\ UNCHANGED prev_call

\* batch_run is called: lines 130-143, the run-configuration file is read.
BatchRunCall(a, cfg) ==
    /\ UNCHANGED <<contVars, mainVars, auxVars>>
    /\ bpc = "idle"
    /\ bpc' = "br_start"
    /\ args' = a
    /\ run_dict' = cfg
    /\ pickles_at_call' = pickles
    /\ UNCHANGED <<pickles, prev_call, run_dict_list, i, results,
                   recording_container, all_info, events, returned>>

\* Lines 145-155: the pickle is loaded.
BatchRunLoadCache ==
    /\ UNCHANGED <<contVars, mainVars, auxVars>>
    /\ bpc = "br_start"
    /\ UseCache(args.idx, args.only_check, IsFile(pickle_name), args.overwrite)
    /\ all_info' = PickleLoad(pickles[pickle_name])
    /\ events' = Append(events, Ev("load_cache"))
    /\ bpc' = "br_after"
    /\ UNCHANGED <<pickles, args, run_dict, run_dict_list, i, results,
                   recording_container, returned, pickles_at_call, prev_call>>

\* Lines 157-165 and 57-63: batch_main is entered with run_dict["run_list"].
BatchMainCall ==
    /\ UNCHANGED <<contVars, mainVars, auxVars>>
    /\ bpc = "br_start"
    /\ ~UseCache(args.idx, args.only_check, IsFile(pickle_name), args.overwrite)
    /\ run_dict_list' = run_dict.run_list
    /\ events' = Append(events, Ev("batch_main"))
    /\ bpc' = IF SingleIndex(args.idx) THEN "bm_single" ELSE "bm_loop"
    /\ all_info' = IF SingleIndex(args.idx) THEN all_info ELSE PyList(<<>>)
    /\ i' = 0
    /\ UNCHANGED <<pickles, args, run_dict, results, recording_container,
                   returned, pickles_at_call, prev_call>>

\* The passes batch_main runs: the run dicts name directories that exist
\* and hold recordings, args_fn is a function that returns, the container
\* is not sorted and the recordings are not loaded; an analysis function
\* may raise.  To batch_main every exception of a pass other than
\* SystemExit is alike.
PassOutcomes(only_check) ==
    { MainOutcome("dir", dbs, only_check,
                  [args_fn |-> TRUE, sort_container_fn |-> FALSE,
                   load_all |-> FALSE, recordings |-> TRUE],
                  raises) :
        dbs \in BOOLEAN,
        raises \in { r \in MainRaises :
                       ~r.sort_fn /\ ~r.args_fn /\ ~r.load } }

\* Lines 57-61: only the pass of the selected index is run.
BatchMainSingle ==
    /\ UNCHANGED <<contVars, mainVars, auxVars>>
    /\ bpc = "bm_single"
    /\ \E outcome \in PassOutcomes(args.only_check) :
       LET g == GetDictEntry(run_dict_list, args.idx, args.function_to_use) IN
       /\ run_dict_list' = g.list
       /\ IF g.exc # "none"
          THEN /\ Raise(g.exc)
               /\ UNCHANGED <<all_info, events>>
          ELSE /\ events' = Append(events,
                      RunEv(args.idx, g.batch_param_loc, g.fn_param_loc, outcome))
               /\ IF outcome # "ok"
                  THEN /\ Raise(outcome)
                       /\ UNCHANGED all_info
                  ELSE /\ all_info' = PyTuple(
                              RunResults(g.batch_param_loc, g.fn_param_loc),
                              RunContainer(g.batch_param_loc))
                       /\ bpc' = "br_persist"
                       /\ UNCHANGED <<returned, prev_call>>
    /\ UNCHANGED <<pickles, args, run_dict, i, results, recording_container,
                   pickles_at_call>>

\* Lines 64-92: one iteration of the loop.
BatchMainIterate ==
    /\ UNCHANGED <<contVars, mainVars, auxVars>>
    /\ bpc = "bm_loop"
    /\ i < Len(run_dict_list)
    /\ \E outcome \in PassOutcomes(args.only_check) :
       LET g == GetDictEntry(run_dict_list, i, args.function_to_use) IN
       /\ run_dict_list' = g.list
       /\ IF g.exc # "none"
          THEN /\ Raise(g.exc)
               /\ UNCHANGED <<all_info, events, results, recording_container, i>>
          ELSE LET b == LoopBody(args.handle_errors,
                                 SaveInfo(run_dict.after_batch_fn),
                                 run_dict.keep_all_data, outcome, i,
                                 g.batch_param_loc, g.fn_param_loc,
                                 results, recording_container, all_info)
               IN /\ events' = Append(events,
                         RunEv(i, g.batch_param_loc, g.fn_param_loc, outcome)) \o b.logged
                  /\ results' = b.results
                  /\ recording_container' = b.recording_container
                  /\ all_info' = b.all_info
                  /\ IF b.exc # "none"
                     THEN Raise(b.exc) /\ UNCHANGED i
                     ELSE /\ i' = i + 1
                          /\ UNCHANGED <<bpc, returned, prev_call>>
    /\ UNCHANGED <<pickles, args, run_dict, pickles_at_call>>

\* Line 94: the loop is over, batch_main returns all_info.
BatchMainReturn ==
    /\ UNCHANGED <<contVars, mainVars, auxVars>>
    /\ bpc = "bm_loop"
    /\ i >= Len(run_dict_list)
    /\ bpc' = "br_persist"
    /\ UNCHANGED <<pickles, args, run_dict, run_dict_list, i, results,
                   recording_container, all_info, events, returned,
                   pickles_at_call, prev_call>>

\* Lines 166-173: the aggregate is pickled and the outputs are merged.
BatchRunPersist ==
    /\ UNCHANGED <<contVars, mainVars, auxVars>>
    /\ bpc = "br_persist"
    /\ IF ShouldPersist(args.only_check, args.idx)
       THEN /\ pickles' = [pickles EXCEPT ![pickle_name] = PickleDump(all_info)]
            /\ events' = events \o <<Ev("write_cache")>>
                   \o (IF ShouldMerge(args.merge)
                       THEN <<Ev("csv_merge"), Ev("merge_files")>>
                       ELSE <<>>)
       ELSE UNCHANGED <<pickles, events>>
    /\ bpc' = "br_after"
    /\ UNCHANGED <<args, run_dict, run_dict_list, i, results,
                   recording_container, all_info, returned, pickles_at_call,
                   prev_call>>

\* Lines 174-187: the post-batch callback, then batch_run returns all_info.
BatchRunFinish ==
    /\ UNCHANGED <<contVars, mainVars, auxVars>>
    /\ bpc = "br_after"
    /\ events' = IF ShouldCallAfter(args.only_check, run_dict.after_batch_fn)
                 THEN Append(events, [e |-> "callback", info |-> all_info,
                                      out_dir |-> out_dir])
                 ELSE events
    /\ returned' = all_info
    /\ bpc' = "br_done"
    /\ UNCHANGED <<pickles, args, run_dict, run_dict_list, i, results,
                   recording_container, all_info, pickles_at_call,
                   prev_call>>

\* What a completed call leaves for the call that follows it: a call for all
\* indexes that was not check-only and returned is remembered with what it
\* returned.
CallRecord ==
    IF returned.tag # "raised" /\ args.idx = NoIdx /\ ~args.only_check
    THEN [tag |-> "call", run_dict_loc |-> args.run_dict_loc,
          function_to_use |-> args.function_to_use, returned |-> returned]
    ELSE NoCall

\* The call is over: its frame is gone, the files stay.
BatchRunExit ==
    /\ UNCHANGED <<contVars, mainVars, auxVars>>
    /\ bpc = "br_done"
    /\ bpc' = "idle"
    /\ prev_call' = CallRecord
    /\ args' = PyNone
    /\ run_dict' = PyNone
    /\ run_dict_list' = <<>>
    /\ i' = 0
    /\ results' = Unbound
    /\ recording_container' = Unbound
    /\ all_info' = Unbound
    /\ events' = <<>>
    /\ returned' = PyNone
    /\ pickles_at_call' = pickles
    /\ UNCHANGED pickles

\* ------------------------------------------------------ RecordingContainer
NoSource == 0
\* Recording(param_file=..., load=...): a recording object.
NewRecording(oid, source_file, loaded) ==
    [oid |-> oid, source_file |-> source_file, loaded |-> loaded,
     results |-> <<>>]

\* A reference to a recording: the element at a position of the stored
\* sequence, or the object in the last_loaded slot.
ElemRef(k) == [ref |-> "elem", k |-> k]
SlotRef == [ref |-> "slot", k |-> NoIdx]
NoRef == [ref |-> "none", k |-> NoIdx]

\* deepcopy(recording): an equal recording that is another object.
DeepCopy(r, oid) == [r EXCEPT !.oid = oid]

\* Recording.load(): the recording is loaded.
Load(r) == [r EXCEPT !.loaded = TRUE]

MaterializeInPlace(cont, idx, load_ok, oid) ==
    [container |-> IF load_ok THEN [cont EXCEPT ![idx + 1] = Load(@)] ELSE cont,
     last_loaded |-> IF load_ok THEN Load(cont[idx + 1]) ELSE cont[idx + 1]]

\* What get's lazy branch puts in the slot for element idx: a deep copy of
\* the element, loaded when load() succeeds.
Materialize(cont, idx, load_ok, oid) ==
    LET copy == DeepCopy(cont[idx + 1], oid)
    IN  [container |-> cont,
         last_loaded |-> IF load_ok THEN Load(copy) ELSE copy]

NeedsLoadAlways(slot_idx, idx) == TRUE

\* Whether get has to materialize idx.
NeedsLoad(slot_idx, idx) == slot_idx # idx

\* RecordingContainer.get(idx) on a container (cont, lazy, slot, slot_idx):
\* the exception it raises or the reference it returns, the container's new
\* state and the number of load() calls it made.
Get(cont, lazy, slot, slot_idx, idx, load_ok, oid) ==
    IF idx >= Len(cont) /\ (~lazy \/ NeedsLoad(slot_idx, idx))
    THEN [exc |-> "IndexError", ret |-> NoRef, container |-> cont,
          last_loaded |-> slot, last_loaded_idx |-> slot_idx, loads |-> 0]
    ELSE IF ~lazy
    THEN [exc |-> "none", ret |-> ElemRef(idx), container |-> cont,
          last_loaded |-> slot, last_loaded_idx |-> slot_idx, loads |-> 0]
    ELSE IF NeedsLoad(slot_idx, idx)
    THEN LET m == Materialize(cont, idx, load_ok, oid) IN
         IF load_ok
         THEN [exc |-> "none", ret |-> SlotRef, container |-> m.container,
               last_loaded |-> m.last_loaded, last_loaded_idx |-> idx,
               loads |-> 1]
         ELSE [exc |-> "LoadError", ret |-> NoRef, container |-> m.container,
               last_loaded |-> m.last_loaded, last_loaded_idx |-> slot_idx,
               loads |-> 1]
    ELSE [exc |-> "none", ret |-> SlotRef, container |-> cont,
          last_loaded |-> slot, last_loaded_idx |-> slot_idx, loads |-> 0]

\* A reference to an object that is neither stored nor in the slot any
\* more: the copy a later get has pushed out of the slot.
DetachedRef(obj) == [ref |-> "detached", k |-> NoIdx, obj |-> obj]

\* The object a reference denotes.
Deref(cont, slot, r) ==
    IF r.ref = "elem" THEN cont[r.k + 1]
    ELSE IF r.ref = "detached" THEN r.obj
    ELSE slot

\* RecordingContainer() before setup.
ContainerUnbuilt ==
    /\ container = <<>>
    /\ load_on_fly = TRUE
    /\ last_loaded = NewRecording(0, NoSource, FALSE)
    /\ last_loaded_idx = NoIdx
    /\ base_dir = PyNone
    /\ next_oid = 1
    /\ get_log = <<>>

\* RecordingContainer(load_on_fly) after setup found valid recordings at
\* the given paths:
\* setup builds them with load = not load_on_fly.
ContainerBuilt(lazy, paths) ==
    /\ container = [k \in 1..Len(paths) |-> NewRecording(k, paths[k], ~lazy)]
    /\ load_on_fly = lazy
    /\ last_loaded = NewRecording(0, NoSource, FALSE)
    /\ last_loaded_idx = NoIdx
    /\ base_dir = [tag |-> "path", path |-> <<"data">>]
    /\ next_oid = Len(paths) + 1
    /\ get_log = <<>>

\* ---------------------------------------------------- RecordingContainer.setup
ParamName == "simuran_params.py"
\* A file found under the start directory.
FoundFile(path, base, valid) == [path |-> path, base |-> base, valid |-> valid]

\* setup(filenames, start_dir, param_name): a recording is built, with
\* load = not load_on_fly, for every file named param_name, and appended
\* when valid.  Yields the new stored sequence.
RECURSIVE SetupAppend(_, _, _, _)
SetupAppend(cont, lazy, param_files, oid) ==
    IF param_files = <<>> THEN cont
    ELSE LET f == Head(param_files) IN
         SetupAppend(IF f.valid
                     THEN Append(cont, NewRecording(oid, f.path, ~lazy))
                     ELSE cont,
                     lazy, Tail(param_files), oid + 1)

IsAnyFile(f) == TRUE

IsParamFile(f) == f.base = ParamName
Setup(cont, lazy, filenames, oid) ==
    SetupAppend(cont, lazy, SelectSeq(filenames, IsParamFile), oid)

\* -------------------------------------------------------- AnalysisHandler
\* dict[key] = value on a dict kept as its items in insertion order.
RECURSIVE DictSet(_, _, _)
DictSet(d, key, value) ==
    IF d = <<>> THEN <<[key |-> key, value |-> value]>>
    ELSE IF Head(d).key = key THEN <<[key |-> key, value |-> value]>> \o Tail(d)
    ELSE <<Head(d)>> \o DictSet(Tail(d), key, value)

\* What analysis function fn returns for a recording and arguments.
FnValue(fn, source_file, fn_args) ==
    [fn |-> fn, on |-> source_file, args |-> fn_args]

\* run_all_fns up to (not including) binding number `stop`: the results.
RECURSIVE RunFns(_, _, _, _, _)
RunFns(queue, stop, cont, slot, acc) ==
    IF queue = <<>> \/ stop = 1 THEN acc
    ELSE LET b == Head(queue)
             r == Deref(cont, slot, b.rec)
         IN RunFns(Tail(queue), stop - 1, cont, slot,
                   DictSet(acc, b.fn, FnValue(b.fn, r.source_file, b.args)))

\* The events of the bindings run_all_fns executed.
FnEvents(queue, stop, cont, slot, index) ==
    [k \in 1..(IF stop = 0 THEN Len(queue) ELSE stop - 1) |->
        [e |-> "fn", fn |-> queue[k].fn, i |-> index,
         on |-> Deref(cont, slot, queue[k].rec).source_file,
         oid |-> Deref(cont, slot, queue[k].rec).oid,
         args |-> queue[k].args]]

\* dict.get(key, default)
DictGet(d, key, default) == IF key \in DOMAIN d THEN d[key] ELSE default

\* AnalysisHandler.add_fn for each function of the list, in list order
\* (main's lines 66-68): the bindings appended to the queue.
BindFnsReversed(functions, rec, d) ==
    [k \in 1..Len(functions) |->
        [fn |-> functions[Len(functions) + 1 - k], rec |-> rec,
         args |-> DictGet(d, functions[Len(functions) + 1 - k], <<>>)]]

BindFns(functions, rec, d) ==
    [k \in 1..Len(functions) |->
        [fn |-> functions[k], rec |-> rec,
         args |-> DictGet(d, functions[k], <<>>)]]

\* AnalysisHandler.reset: the queue and the results are emptied.
Reset(queue, res) == [queue |-> <<>>, results |-> <<>>]

HandlerKept(queue, res) == [queue |-> queue, results |-> res]

\* The handler as main's line 71 leaves it for the next recording.
HandlerAfterIteration(queue, res) == Reset(queue, res)

\* ------------------------------------------------- AbstractContainer.sort
\* A text is the sequence of the code points of its characters.  A source
\* file is written as its path below in_dir: the name of the recording's
\* directory, the separator and the file name "simuran_params.py".
Sep == 47
ParamNameText ==
    <<115, 105, 109, 117, 114, 97, 110, 95, 112, 97, 114, 97, 109, 115, 46, 112, 121>>
PathUnder(dir_name) == dir_name \o <<Sep>> \o ParamNameText

\* The characters int() skips around a number.
IntSpace ==
    {9, 10, 11, 12, 13, 32, 133, 160, 5760} \cup (8192..8202)
      \cup {8232, 8233, 8239, 8287, 12288}
\* The code points of the zeros of the decimal digits; the digits of a
\* script are the ten code points from its zero on.
DigitZeros ==
    {
      48, 1632, 1776, 1984, 2406, 2534, 2662, 2790, 2918, 3046, 3174,
      3302, 3430, 3558, 3664, 3792, 3872, 4160, 4240, 6112, 6160,
      6470, 6608, 6784, 6800, 6992, 7088, 7232, 7248, 42528, 43216,
      43264, 43472, 43504, 43600, 44016, 65296, 66720, 68912, 69734,
      69872, 69942, 70096, 70384, 70736, 70864, 71248, 71360, 71472,
      71904, 72016, 72784, 73040, 73120, 92768, 92864, 93008, 120782,
      120792, 120802, 120812, 120822, 123200, 123632, 125264, 130032 }
IsDigit(c) == \E z \in DigitZeros : c \in z..(z + 9)
DigitValue(c) == c - (CHOOSE z \in DigitZeros : c \in z..(z + 9))

\* The text without the space before and behind it.
Strip(text) ==
    LET kept == { k \in 1..Len(text) : text[k] \notin IntSpace }
    IN IF kept = {} THEN <<>>
       ELSE SubSeq(text, CHOOSE k \in kept : \A h \in kept : k <= h,
                         CHOOSE k \in kept : \A h \in kept : k >= h)

\* The value of digits that may have single underscores between them.
RECURSIVE DigitsValue(_, _)
DigitsValue(text, acc) ==
    IF text = <<>> THEN acc
    ELSE IF Head(text) = 95 THEN DigitsValue(Tail(text), acc)
    ELSE DigitsValue(Tail(text), 10 * acc + DigitValue(Head(text)))

\* int(text), line 84: the text without the space around it is an optional
\* sign and decimal digits, of any script, with at most one underscore
\* between two digits; every other text, the empty one included, raises
\* ValueError.
ParseInt(text) ==
    LET bare == Strip(text)
        signed == bare # <<>> /\ Head(bare) \in {43, 45}
        body == IF signed THEN Tail(bare) ELSE bare
        wellFormed ==
            /\ body # <<>>
            /\ IsDigit(body[1]) /\ IsDigit(body[Len(body)])
            /\ \A k \in 1..Len(body) : IsDigit(body[k]) \/ body[k] = 95
            /\ \A k \in 1..(Len(body) - 1) :
                  ~(body[k] = 95 /\ body[k + 1] = 95)
    IN IF ~wellFormed
       THEN Raised("ValueError")
       ELSE [tag |-> "int",
             n |-> IF signed /\ Head(bare) = 45
                   THEN 0 - DigitsValue(body, 0) ELSE DigitsValue(body, 0)]

\* text.split("_")[0]: the characters before the first underscore.
RECURSIVE SplitFirst(_)
SplitFirst(text) ==
    IF text = <<>> \/ Head(text) = 95 THEN <<>>
    ELSE <<Head(text)>> \o SplitFirst(Tail(text))

\* sort_fn(x), lines 82-85: the path below in_dir without its first
\* character, cut at the first underscore and read as an integer.
SortFn(r) ==
    LET comp == IF r.source_file = <<>> THEN <<>> ELSE Tail(r.source_file)
    IN ParseInt(SplitFirst(comp))

\* The key function raises on some element of the sequence.
SortRaises(cont) == \E k \in 1..Len(cont) : SortFn(cont[k]).tag = "raised"

\* The key of a recording sort_fn has a key for.
SortKey(r) == SortFn(r).n

\* r inserted behind every element that sorts before it or equal to it.
RECURSIVE InsertSorted(_, _, _)
InsertSorted(sorted, r, reverse) ==
    IF sorted = <<>> THEN <<r>>
    ELSE IF (IF reverse THEN SortKey(Head(sorted)) >= SortKey(r)
             ELSE SortKey(Head(sorted)) <= SortKey(r))
    THEN <<Head(sorted)>> \o InsertSorted(Tail(sorted), r, reverse)
    ELSE <<r>> \o sorted

\* sort(key_fn, reverse): a stable sort of the stored sequence.
RECURSIVE Sort(_, _, _)
Sort(cont, reverse, acc) ==
    IF cont = <<>> THEN acc
    ELSE Sort(Tail(cont), reverse, InsertSorted(acc, Head(cont), reverse))

\* Lines 49-50: the container is sorted when a sort function is given; the
\* sequence stays as setup left it when the key function raises.
SortIfAsked(cont, sort_container_fn, reverse_sort) ==
    IF sort_container_fn # "None" /\ ~SortRaises(cont)
    THEN Sort(cont, reverse_sort, <<>>) ELSE cont

LoopDoneAlways(index, n) == TRUE

\* Lines 53-54: range(len(recording_container)) is exhausted.
LoopDone(index, n) == index >= n

\* ------------------------------------------------------------------- main
FnNames == {"f", "g"}
FunctionLists ==
    UNION { [1..n -> FnNames] : n \in 0..MaxFns }

\* The argument-resolution function: it has arguments for f and none for g.
ArgsFn(rec) == [name \in {"f"} |-> <<rec.source_file>>]

\* Names of the k-th recording directory found under in_dir: names that
\* sort_fn reads a number from (the first two directories have either
\* number, so that they are found in order, out of order or with equal
\* numbers) and, for the first directory, one it reads none from (the
\* digit is the character it skips).
\* The names are "t1_k", "t2_k" and "1_k", k a digit.
DirNames(k) ==
    { <<116, 49, 95, 48 + k>> }
      \cup (IF k <= 2 THEN { <<116, 50, 95, 48 + k>> } ELSE {})
      \cup (IF k = 1 THEN { <<49, 95, 48 + k>> } ELSE {})
PlainName(k) == <<116, 49, 95, 48 + k>>

\* The parameter files a recursive scan of a directory finds, in discovery
\* order, one in each recording directory.
FilesFound(names) ==
    [k \in 1..Len(names) |-> FoundFile(PathUnder(names[k]), ParamName, TRUE)]
NameLists(n) == { names \in [1..n -> UNION { DirNames(k) : k \in 1..n }] :
                    \A k \in 1..n : names[k] \in DirNames(k) }
FoundLists == UNION { { FilesFound(names) : names \in NameLists(n) } :
                      n \in 0..MaxRecs }
PlainFound(n) == FilesFound([k \in 1..n |-> PlainName(k)])
Paths(files) == [k \in 1..Len(files) |-> files[k].path]
\* The scan of a file's directory is not recursive: it finds the parameter
\* file of that directory or nothing.
DirectFound == { <<>>, <<FoundFile(ParamNameText, ParamName, TRUE)>> }

\* What main may be called with.  The batch parameter file is read only in
\* the batch-setup step, reverse_sort only by sort and the directory names
\* only by sort_fn, so they are left at their defaults where nothing reads
\* them.  sort_fn is written for a location that is the directory in_dir,
\* and nothing is found at a location that does not exist.
MainInputs ==
    { inp \in [location_kind : LocationKinds,
               do_batch_setup : BOOLEAN,
               only_check : BOOLEAN,
               overwrite : BOOLEAN,
               args_fn : {"None", "args_fn"},
               sort_container_fn : {"None", "sort_fn"},
               reverse_sort : BOOLEAN,
               load_all : BOOLEAN,
               functions : FunctionLists,
               files : FoundLists \cup DirectFound] :
        /\ inp.do_batch_setup \/ (~inp.only_check /\ ~inp.overwrite)
        /\ (inp.sort_container_fn = "None") => ~inp.reverse_sort
        /\ IF inp.location_kind = "file"
           THEN inp.files \in DirectFound /\ inp.sort_container_fn = "None"
           ELSE IF inp.location_kind = "missing"
           THEN inp.files = <<>> /\ inp.sort_container_fn = "None"
           ELSE /\ inp.files \in FoundLists
                /\ (inp.sort_container_fn = "None") =>
                      inp.files = PlainFound(Len(inp.files)) }

MainIdle ==
    /\ mpc = "m_idle"
    /\ m_in = PyNone
    /\ mi = 0
    /\ function_args = Unbound
    /\ recording = NoRef
    /\ fns_to_run = <<>>
    /\ handler_results = <<>>
    /\ m_events = <<>>
    /\ summary = PyNone
    /\ m_exit = PyNone

MEv(name) == [e |-> name]

\* main raises exc.
MainRaise(exc) ==
    /\ mpc' = "m_ended"
    /\ m_exit' = Raised(exc)

\* main is called.
MainCall(inp) ==
    /\ mpc = "m_idle"
    /\ mpc' = "m_batch_setup"
    /\ m_in' = inp
    /\ UNCHANGED <<mi, function_args, recording, fns_to_run, handler_results,
                   m_events, summary, m_exit>>
    /\ UNCHANGED <<batchVars, contVars, auxVars>>

\* Whether the batch-setup step ends the pass by exit(-1).
ExitsAfterSetup(only_check) == only_check

\* Lines 19-35: the batch-setup step.
MainBatchSetup ==
    /\ mpc = "m_batch_setup"
    /\ IF ~m_in.do_batch_setup
       THEN /\ mpc' = "m_container"
            /\ UNCHANGED <<m_events, m_exit>>
       ELSE IF m_in.location_kind # "dir"
       THEN /\ MainRaise("ValueError")
            /\ UNCHANGED m_events
       ELSE /\ m_events' = m_events
                  \o (IF m_in.overwrite /\ ~m_in.only_check
                      THEN <<MEv("clear_params")>> ELSE <<>>)
                  \o <<MEv("write_batch_params")>>
            /\ IF ExitsAfterSetup(m_in.only_check)
               THEN /\ mpc' = "m_ended"
                    /\ m_exit' = [tag |-> "exit", status |-> -1]
               ELSE /\ mpc' = "m_container"
                    /\ UNCHANGED m_exit
    /\ UNCHANGED <<m_in, mi, function_args, recording, fns_to_run,
                   handler_results, summary>>
    /\ UNCHANGED <<batchVars, contVars, auxVars>>

\* Lines 37-53: the container is built, set up and the handler made.
MainSetupContainer ==
    /\ mpc = "m_container"
    /\ IF m_in.location_kind = "missing"
       THEN /\ MainRaise("ValueError")
            /\ UNCHANGED <<container, base_dir, next_oid, m_events>>
       ELSE /\ container' = SortIfAsked(
                               Setup(<<>>, TRUE, m_in.files, next_oid),
                               m_in.sort_container_fn, m_in.reverse_sort)
            /\ base_dir' = [tag |-> "path", path |-> <<"data">>]
            /\ next_oid' = next_oid + Len(m_in.files)
            /\ m_events' = Append(m_events, MEv("setup"))
            /\ IF m_in.sort_container_fn # "None"
                  /\ SortRaises(Setup(<<>>, TRUE, m_in.files, next_oid))
               THEN MainRaise("ValueError")
               ELSE mpc' = "m_loop" /\ UNCHANGED m_exit
    /\ mi' = 0
    /\ UNCHANGED <<load_on_fly, last_loaded, last_loaded_idx, get_log>>
    /\ UNCHANGED <<m_in, function_args, recording, fns_to_run,
                   handler_results, summary>>
    /\ UNCHANGED <<batchVars, auxVars>>

\* The recording main works on in iteration index: the one get returns
\* when load_all is set, the stored element otherwise.
PickRecording(load_all, g, index) == IF load_all THEN g.ret ELSE ElemRef(index)

\* Lines 54-68: the arguments are resolved, the recording is taken and the
\* functions are bound.
MainIterBegin ==
    /\ mpc = "m_loop"
    /\ ~LoopDone(mi, Len(container))
    /\ mi < Len(container)
    /\ \E load_ok \in BOOLEAN, args_ok \in BOOLEAN :
       LET fa == IF m_in.args_fn # "None"
                 THEN IF args_ok
                      THEN [tag |-> "dict", d |-> ArgsFn(container[mi + 1])]
                      ELSE Raised("ArgsError")
                 ELSE function_args
           g == Get(container, load_on_fly, last_loaded, last_loaded_idx,
                    mi, load_ok, next_oid)
           rec == PickRecording(m_in.load_all, g, mi)
       IN
       /\ function_args' = IF fa.tag = "raised" THEN function_args ELSE fa
       /\ IF fa.tag = "raised"
          THEN /\ MainRaise(fa.exc)
               /\ UNCHANGED <<contVars, recording, fns_to_run, m_events>>
          ELSE IF fa = Unbound
          THEN /\ MainRaise("UnboundLocalError")
               /\ UNCHANGED <<contVars, recording, fns_to_run, m_events>>
          ELSE IF m_in.load_all /\ g.exc # "none"
          THEN /\ MainRaise(g.exc)
               /\ container' = g.container
               /\ last_loaded' = g.last_loaded
               /\ last_loaded_idx' = g.last_loaded_idx
               /\ next_oid' = next_oid + g.loads
               /\ recording' = IF recording = SlotRef /\ g.loads > 0
                                THEN DetachedRef(last_loaded)
                                ELSE recording
               /\ UNCHANGED <<load_on_fly, base_dir, get_log, fns_to_run,
                              m_events>>
          ELSE /\ IF m_in.load_all
                  THEN /\ container' = g.container
                       /\ last_loaded' = g.last_loaded
                       /\ last_loaded_idx' = g.last_loaded_idx
                       /\ next_oid' = next_oid + g.loads
                       /\ m_events' = Append(m_events,
                              [e |-> "get", i |-> mi, loads |-> g.loads])
                       /\ UNCHANGED <<load_on_fly, base_dir, get_log>>
                  ELSE UNCHANGED <<contVars, m_events>>
               /\ recording' = rec
               /\ fns_to_run' = fns_to_run \o BindFns(m_in.functions, rec, fa.d)
               /\ mpc' = "m_run"
               /\ UNCHANGED m_exit
    /\ UNCHANGED <<m_in, mi, handler_results, summary>>
    /\ UNCHANGED <<batchVars, auxVars>>

\* The object main's line 70 assigns the results to.
ResultsTarget(rec) == rec

\* Lines 69-71: the functions are run, the results copied onto the
\* recording and the handler reset; an analysis function may raise.
MainRunAndCopy ==
    /\ mpc = "m_run"
    /\ \E stop \in 0..Len(fns_to_run) :
       LET res == RunFns(fns_to_run, IF stop = 0 THEN Len(fns_to_run) + 1 ELSE stop,
                         container, last_loaded, handler_results)
           target == ResultsTarget(recording)
           h == HandlerAfterIteration(fns_to_run, res)
       IN
       /\ m_events' = m_events
              \o FnEvents(fns_to_run, stop, container, last_loaded, mi)
       /\ IF stop # 0
          THEN /\ MainRaise("Exception")
               /\ handler_results' = res
               /\ UNCHANGED <<container, last_loaded, fns_to_run, mi>>
          ELSE /\ IF target.ref = "elem"
                  THEN /\ container' =
                            [container EXCEPT ![target.k + 1].results = res]
                       /\ UNCHANGED last_loaded
                  ELSE /\ last_loaded' = [last_loaded EXCEPT !.results = res]
                       /\ UNCHANGED container
               /\ handler_results' = h.results
               /\ fns_to_run' = h.queue
               /\ mi' = mi + 1
               /\ mpc' = "m_loop"
               /\ UNCHANGED m_exit
    /\ UNCHANGED <<load_on_fly, last_loaded_idx, base_dir, next_oid, get_log>>
    /\ UNCHANGED <<m_in, function_args, recording, summary>>
    /\ UNCHANGED <<batchVars, auxVars>>

\* Lines 72-75: save_summary_data writes one row per stored recording.
MainSummary ==
    /\ mpc = "m_loop"
    /\ LoopDone(mi, Len(container))
    /\ summary' = [tag |-> "table",
                   rows |-> [k \in 1..Len(container) |->
                               [source_file |-> container[k].source_file,
                                results |-> container[k].results]]]
    /\ m_events' = Append(m_events, MEv("summary"))
    /\ mpc' = "m_ended"
    /\ m_exit' = [tag |-> "returned"]
    /\ UNCHANGED <<m_in, mi, function_args, recording, fns_to_run,
                   handler_results>>
    /\ UNCHANGED <<batchVars, contVars, auxVars>>

InitMain == BatchInit /\ ContainerUnbuilt /\ MainIdle /\ AuxIdle

NextMain ==
    \/ \E inp \in MainInputs : MainCall(inp)
    \/ MainBatchSetup
    \/ MainSetupContainer
    \/ MainIterBegin
    \/ MainRunAndCopy
    \/ MainSummary

SpecMain == InitMain /\ [][NextMain]_vars

\* A caller calls get(idx); load() succeeds or raises.
ContainerGet(idx, load_ok) ==
    /\ Len(get_log) < MaxGets
    /\ LET g == Get(container, load_on_fly, last_loaded, last_loaded_idx,
                    idx, load_ok, next_oid)
       IN /\ container' = g.container
          /\ last_loaded' = g.last_loaded
          /\ last_loaded_idx' = g.last_loaded_idx
          /\ next_oid' = next_oid + g.loads
          /\ get_log' = Append(get_log,
                 [idx |-> idx, exc |-> g.exc, loads |-> g.loads,
                  slot_idx_before |-> last_loaded_idx,
                  ret |-> IF g.exc = "none"
                          THEN Deref(g.container, g.last_loaded, g.ret)
                          ELSE NewRecording(0, NoSource, FALSE)])
    /\ UNCHANGED <<load_on_fly, base_dir>>
    /\ UNCHANGED <<batchVars, mainVars, auxVars>>

InitContainer ==
    /\ BatchInit
    /\ MainIdle
    /\ AuxIdle
    /\ \E lazy \in BOOLEAN, n \in 0..MaxRecs :
          ContainerBuilt(lazy, Paths(PlainFound(n)))

NextContainer ==
    \E idx \in 0..MaxRecs, load_ok \in BOOLEAN : ContainerGet(idx, load_ok)

SpecContainer == InitContainer /\ [][NextContainer]_vars

\* ------------------------------------------- setup calls on one container
\* What a scan may find, in discovery order: file k is a parameter file of
\* a valid recording, a parameter file of an invalid one, or another script.
FileKinds ==
    { [base |-> ParamName, valid |-> TRUE], [base |-> ParamName, valid |-> FALSE],
      [base |-> "other.py", valid |-> TRUE] }
Disks ==
    UNION { { [k \in 1..n |-> FoundFile(k, kinds[k].base, kinds[k].valid)] :
                kinds \in [1..n -> FileKinds] } : n \in 0..MaxFiles }
StartDirs == { [tag |-> "path", path |-> <<"data">>],
               [tag |-> "path", path |-> <<"data", "sub">>] }

\* RecordingContainer(load_on_fly=lazy), nothing set up.
ContainerNew(lazy) ==
    /\ container = <<>>
    /\ load_on_fly = lazy
    /\ last_loaded = NewRecording(0, NoSource, FALSE)
    /\ last_loaded_idx = NoIdx
    /\ base_dir = PyNone
    /\ next_oid = 1
    /\ get_log = <<>>

\* setup(filenames, start_dir), lines 29-46; auto_setup passes it the files
\* its scan of start_dir found.
ContainerSetup(filenames, start_dir) ==
    /\ Len(setup_log) < MaxSetups
    /\ container' = Setup(container, load_on_fly, filenames, next_oid)
    /\ base_dir' = start_dir
    /\ next_oid' = next_oid + Len(SelectSeq(filenames, IsParamFile))
    /\ setup_log' = Append(setup_log,
           [filenames |-> filenames, start_dir |-> start_dir,
            before |-> container,
            returned |-> SelectSeq(filenames, IsParamFile)])
    /\ UNCHANGED <<load_on_fly, last_loaded, last_loaded_idx, get_log>>
    /\ UNCHANGED <<disk, cache_calls, ph_params, ph_file, ph_read>>
    /\ UNCHANGED <<batchVars, mainVars>>

InitSetup ==
    /\ BatchInit
    /\ MainIdle
    /\ \E lazy \in BOOLEAN : ContainerNew(lazy)
    /\ disk \in Disks
    /\ setup_log = <<>>
    /\ cache_calls = <<>>
    /\ ph_params = PyNone
    /\ ph_file = NoFile
    /\ ph_read = PyNone

NextSetup ==
    \E k \in 0..Len(disk), start_dir \in StartDirs :
        ContainerSetup(SubSeq(disk, 1, k), start_dir)

SpecSetup == InitSetup /\ [][NextSetup]_vars

Init == BatchInit /\ ContainerUnbuilt /\ MainIdle /\ AuxIdle

\* --------------------------------------- batch_main called twice on a list
\* A caller of batch_main that, after it returned, calls it again with the
\* same list object and the same arguments; the locals of the new call
\* are not bound yet.
BatchMainAgain ==
    /\ UNCHANGED <<contVars, mainVars, auxVars>>
    /\ bpc = "br_persist"
    /\ Cardinality({k \in 1..Len(events) : events[k].e = "batch_main"})
          < MaxCalls
    /\ events' = Append(events, Ev("batch_main"))
    /\ bpc' = IF SingleIndex(args.idx) THEN "bm_single" ELSE "bm_loop"
    /\ all_info' = IF SingleIndex(args.idx) THEN all_info ELSE PyList(<<>>)
    /\ i' = 0
    /\ results' = Unbound
    /\ recording_container' = Unbound
    /\ UNCHANGED <<pickles, args, run_dict, run_dict_list, returned,
                   pickles_at_call, prev_call>>

\* The first call is made with the list read from the run-configuration file.
NextBatchMain ==
    \/ \E a \in BatchArgs, cfg \in RunConfigs :
          (~a.only_check /\ a.overwrite /\ ~a.merge) /\ BatchRunCall(a, cfg)
    \/ BatchMainCall
    \/ BatchMainSingle
    \/ BatchMainIterate
    \/ BatchMainReturn
    \/ BatchMainAgain

SpecBatchMain == Init /\ [][NextBatchMain]_vars

\* ------------------------------------- get, sort and append on a container
\* A caller sorts the container: sort(key_fn, reverse).
ContainerSort(reverse) ==
    /\ container' = Sort(container, reverse, <<>>)
    /\ UNCHANGED <<load_on_fly, last_loaded, last_loaded_idx, base_dir,
                   next_oid, get_log>>
    /\ UNCHANGED <<batchVars, mainVars, auxVars>>

\* A caller appends a recording of a further source file, built as setup
\* builds it.
ContainerAppend ==
    /\ Len(container) < MaxRecs
    /\ next_oid <= MaxRecs + 1
    /\ container' = Append(container,
                           NewRecording(next_oid,
                                        PathUnder(PlainName(next_oid)),
                                        ~load_on_fly))
    /\ next_oid' = next_oid + 1
    /\ UNCHANGED <<load_on_fly, last_loaded, last_loaded_idx, base_dir,
                   get_log>>
    /\ UNCHANGED <<batchVars, mainVars, auxVars>>

\* The index lists subsample may be given: distinct positions of the
\* stored sequence, in any order.
IdxLists(n) ==
    UNION { { l \in [1..m -> 0..(n - 1)] :
                \A a \in 1..m, b \in 1..m : a # b => l[a] # l[b] } :
            m \in 0..n }

\* subsample(idx_list): the stored sequence becomes the elements at the
\* listed positions; the slot and its index are not touched.
ContainerSubsample(idx_list) ==
    /\ container' = [k \in 1..Len(idx_list) |-> container[idx_list[k] + 1]]
    /\ UNCHANGED <<load_on_fly, last_loaded, last_loaded_idx, base_dir,
                   next_oid, get_log>>
    /\ UNCHANGED <<batchVars, mainVars, auxVars>>

InitReorder ==
    /\ BatchInit
    /\ MainIdle
    /\ AuxIdle
    /\ \E lazy \in BOOLEAN, files \in FoundLists :
          /\ ~SortRaises(Setup(<<>>, lazy, files, 1))
          /\ ContainerBuilt(lazy, Paths(files))

NextReorder ==
    \/ \E idx \in 0..MaxRecs, load_ok \in BOOLEAN : ContainerGet(idx, load_ok)
    \/ \E reverse \in BOOLEAN : ContainerSort(reverse)
    \/ ContainerAppend
    \/ \E idx_list \in IdxLists(Len(container)) : ContainerSubsample(idx_list)

SpecReorder == InitReorder /\ [][NextReorder]_vars

\* ------------------------------------------------------------ ParamHandler
\* Configuration values: strings, ints, floats (in tenths), lists and
\* dicts; a dict is its items in insertion order.  A string is held as its
\* code points, as the texts of the paths are.
CodePoints(x) ==
    CASE x = "hello_world" -> <<104, 101, 108, 108, 111, 95, 119, 111, 114, 108, 100>>
      [] x = "banana" -> <<98, 97, 110, 97, 110, 97>>
      [] x = "chans" -> <<99, 104, 97, 110, 115>>
      [] x = "b" -> <<98>>
      [] x = "0" -> <<48>>
      [] x = "1" -> <<49>>
PyStr(x) == [tag |-> "str", s |-> CodePoints(x)]
PyInt(x) == [tag |-> "int", n |-> x]
PyFloat(tenths) == [tag |-> "float", n |-> tenths]
PyDict(items) == [tag |-> "dict", items |-> items]
Item(k, v) == [key |-> k, value |-> v]

\* str(n): the decimal digits of an int, a minus sign before them.
RECURSIVE IntText(_)
IntText(n) ==
    IF n < 0 THEN <<45>> \o IntText(0 - n)
    ELSE IF n < 10 THEN <<48 + n>>
    ELSE IntText(n \div 10) \o <<48 + (n % 10)>>

KeyKept(k) == k

\* The key as write puts it in the script: its string form.
KeyToStr(k) == IF k.tag = "str" THEN k ELSE [tag |-> "str", s |-> IntText(k.n)]

\* The text of a value as the script holds it: a string between quotes, an
\* int as its digits, a float (not negative) as its digits around a point,
\* a list between brackets and a dict between braces, the elements parted
\* by ", " and a key from its value by ": ".  The strings written hold no
\* quote and no backslash.  Every key is written in its string form.
RECURSIVE ValText(_)
RECURSIVE SeqText(_)
RECURSIVE DictText(_)
ValText(v) ==
    CASE v.tag = "str" -> <<39>> \o v.s \o <<39>>
      [] v.tag = "int" -> IntText(v.n)
      [] v.tag = "float" -> IntText(v.n \div 10) \o <<46, 48 + (v.n % 10)>>
      [] v.tag = "list" -> <<91>> \o SeqText(v.items) \o <<93>>
      [] v.tag = "dict" -> <<123>> \o DictText(v.items) \o <<125>>
SeqText(items) ==
    IF items = <<>> THEN <<>>
    ELSE ValText(Head(items))
         \o (IF Tail(items) = <<>> THEN <<>> ELSE <<44, 32>> \o SeqText(Tail(items)))
DictText(items) ==
    IF items = <<>> THEN <<>>
    ELSE ValText(KeyToStr(Head(items).key)) \o <<58, 32>>
         \o ValText(Head(items).value)
         \o (IF Tail(items) = <<>> THEN <<>> ELSE <<44, 32>> \o DictText(Tail(items)))

\* ParamHandler.write: the script "mapping = {key: value, ...}".
Write(params) ==
    <<109, 97, 112, 112, 105, 110, 103, 32, 61, 32>> \o ValText(params)

\* The first position from p on whose character is outside chars, and the
\* position after the text when there is none.
Skip(text, p, chars) ==
    CHOOSE k \in p..(Len(text) + 1) :
        /\ k = Len(text) + 1 \/ text[k] \notin chars
        /\ \A j \in p..(k - 1) : text[j] \in chars

\* Reading the script back: the value whose text begins at or after p0 and
\* the position after it.  What a value is, is told from its text: a quote
\* opens a string, a bracket a list, a brace a dict; digits with a point
\* are a float and digits without one an int.  When a dict display names a
\* key twice the mapping holds the key once, with the later value when
\* later_wins and with the earlier one otherwise.  A string holds the
\* characters up to its closing quote; a number is made of digits, signs,
\* a point and underscores.
RECURSIVE ParseValueAt(_, _, _)
RECURSIVE ParseItemsAt(_, _, _, _)
RECURSIVE ParsePairsAt(_, _, _, _)
ParseValueAt(text, p0, later_wins) ==
    LET p == Skip(text, p0, {32})
        c == text[p]
        NumChars == (48..57) \cup {43, 45, 46, 95}
    IN IF c \in {39, 34}
       THEN LET e == Skip(text, p + 1, (0..127) \ {c})
            IN [v |-> [tag |-> "str", s |-> SubSeq(text, p + 1, e - 1)],
                next |-> e + 1]
       ELSE IF c = 91 THEN ParseItemsAt(text, p + 1, <<>>, later_wins)
       ELSE IF c = 123 THEN ParsePairsAt(text, p + 1, <<>>, later_wins)
       ELSE LET e == Skip(text, p, NumChars)
                num == SubSeq(text, p, e - 1)
                d == Skip(num, 1, NumChars \ {46})
            IN [v |-> IF d > Len(num) THEN ParseInt(num)
                      ELSE PyFloat(ParseInt(SubSeq(num, 1, d - 1)).n * 10
                                   + DigitValue(num[d + 1])),
                next |-> e]
ParseItemsAt(text, p0, acc, later_wins) ==
    LET p == Skip(text, p0, {32, 44})
    IN IF text[p] = 93 THEN [v |-> PyList(acc), next |-> p + 1]
       ELSE LET r == ParseValueAt(text, p, later_wins)
            IN ParseItemsAt(text, r.next, Append(acc, r.v), later_wins)
ParsePairsAt(text, p0, acc, later_wins) ==
    LET p == Skip(text, p0, {32, 44})
    IN IF text[p] = 125 THEN [v |-> PyDict(acc), next |-> p + 1]
       ELSE LET k == ParseValueAt(text, p, later_wins)
                r == ParseValueAt(text, Skip(text, k.next, {32, 58}), later_wins)
                held == { j \in 1..Len(acc) : acc[j].key = k.v }
                put == IF held = {} THEN Append(acc, Item(k.v, r.v))
                       ELSE IF later_wins
                       THEN [j \in 1..Len(acc) |->
                                IF j \in held THEN Item(k.v, r.v) ELSE acc[j]]
                       ELSE acc
            IN ParsePairsAt(text, r.next, put, later_wins)

\* ParamHandler.read: the mapping the script assigns, the value after "=".
Read(text, later_wins) ==
    ParseValueAt(text, Skip(text, 1, (0..127) \ {61}) + 1, later_wins).v

\* The values of test_param_load and values like them; 1.0 is a float
\* equal to the int 1.
Numbers == { PyInt(1), PyInt(10), PyFloat(141), PyFloat(10) }
NumberLists == UNION { [1..n -> Numbers] : n \in 0..MaxListLen }
Absent == [tag |-> "absent"]
\* A mapping gives each of the keys "hello_world", 0, "0" and "chans" a
\* value or leaves it out.
ParamChoices ==
    [hello_world : { Absent, PyStr("banana") },
     zero : { Absent } \cup { PyList(l) : l \in NumberLists },
     zero_str : { Absent, PyStr("banana"), PyList(<<PyInt(1)>>) },
     chans : { Absent, PyDict(<<>>), PyDict(<<Item(PyStr("1"), PyStr("b"))>>) }]
IsPresent(item) == item.value # Absent
ParamsOf(c) ==
    PyDict(SelectSeq(<<Item(PyStr("hello_world"), c.hello_world),
                       Item(PyInt(0), c.zero),
                       Item(PyStr("0"), c.zero_str),
                       Item(PyStr("chans"), c.chans)>>, IsPresent))

\* ph_write = ParamHandler(params=params); ph_write.write(path)
ParamWrite ==
    /\ ph_file = NoFile
    /\ ph_read = PyNone
    /\ ph_file' = [tag |-> "script", text |-> Write(ph_params)]
    /\ UNCHANGED <<disk, setup_log, cache_calls, ph_params, ph_read>>
    /\ UNCHANGED <<batchVars, contVars, mainVars>>

\* ph_read = ParamHandler(); ph_read.read(path).  Which of two values given
\* to one key the store keeps is left open: either may be the one.
ParamRead ==
    /\ ph_file # NoFile
    /\ ph_read = PyNone
    /\ \E later_wins \in BOOLEAN : ph_read' = Read(ph_file.text, later_wins)
    /\ UNCHANGED <<disk, setup_log, cache_calls, ph_params, ph_file>>
    /\ UNCHANGED <<batchVars, contVars, mainVars>>

\* os.remove(path): the written file is deleted once it has been read.
ParamRemove ==
    /\ ph_file # NoFile
    /\ ph_read # PyNone
    /\ ph_file' = NoFile
    /\ UNCHANGED <<disk, setup_log, cache_calls, ph_params, ph_read>>
    /\ UNCHANGED <<batchVars, contVars, mainVars>>

InitParams ==
    /\ BatchInit
    /\ ContainerUnbuilt
    /\ MainIdle
    /\ disk = <<>>
    /\ setup_log = <<>>
    /\ cache_calls = <<>>
    /\ ph_params \in { ParamsOf(c) : c \in ParamChoices }
    /\ ph_file = NoFile
    /\ ph_read = PyNone

NextParams == ParamWrite \/ ParamRead \/ ParamRemove

SpecParams == InitParams /\ [][NextParams]_vars

\* --------------------------------------------- the cache entry of a call
\* Run-configuration files in one or two directories of one or two projects,
\* and function scripts in one or two directories.
KeyLocs ==
    { <<"proj", "cfg", <<"run", ".py">> >>,
      <<"proj", "cfg2", <<"run", ".py">> >>,
      <<"proj", "cfg", <<"other", ".py">> >>,
      <<"proj2", "cfg", <<"run", ".py">> >>,
      <<"proj", "cfg", <<"run", "--", "f", ".py", ".py">> >> }
KeyFns ==
    { PyNone, FnPath(<<"fns", <<"f", ".py">> >>),
      FnPath(<<"lib", <<"f", ".py">> >>), FnPath(<<"fns", <<"g", ".py">> >>) }

\* batch_run(run_dict_loc, function_to_use) computes the cache entry it
\* reads or writes (lines 134-143).
CacheKeyCall(run_dict_loc, function_to_use) ==
    /\ Len(cache_calls) < MaxCalls
    /\ cache_calls' = Append(cache_calls,
           [run_dict_loc |-> run_dict_loc, function_to_use |-> function_to_use,
            entry |-> PickleName(run_dict_loc, function_to_use)])
    /\ UNCHANGED <<disk, setup_log, ph_params, ph_file, ph_read>>
    /\ UNCHANGED <<batchVars, contVars, mainVars>>

NextKey == \E l \in KeyLocs, f \in KeyFns : CacheKeyCall(l, f)

SpecKey == Init /\ [][NextKey]_vars

Next ==
    \/ \E a \in BatchArgs, cfg \in RunConfigs : BatchRunCall(a, cfg)
    \/ BatchRunLoadCache
    \/ BatchMainCall
    \/ BatchMainSingle
    \/ BatchMainIterate
    \/ BatchMainReturn
    \/ BatchRunPersist
    \/ BatchRunFinish
    \/ BatchRunExit

Spec == Init /\ [][Next]_vars

\* ================================================================ claims
\* C8: on a lazy container, a get that follows a get of the same idx returns
\* the very object the first returned and calls load() no more; a get of an
\* idx other than the last materialized one calls load() once, on a new
\* deep copy of the element at idx, which takes the slot.
C8_GetCachesOneInstance ==
    load_on_fly =>
      \A j \in 1..Len(get_log) :
        LET g == get_log[j] IN
        /\ (j > 1 /\ g.exc = "none" /\ get_log[j - 1].exc = "none"
               /\ get_log[j - 1].idx = g.idx)
           => (g.ret = get_log[j - 1].ret /\ g.loads = 0)
        /\ (g.exc = "none" /\ g.slot_idx_before # g.idx)
           => /\ g.loads = 1
              /\ g.ret.loaded
              /\ g.ret.source_file = container[g.idx + 1].source_file
              /\ \A k \in 1..Len(container) : container[k].oid # g.ret.oid
              /\ \A h \in 1..(j - 1) : get_log[h].ret.oid # g.ret.oid
              /\ j = Len(get_log) => (last_loaded = g.ret /\ last_loaded_idx = g.idx)

\* get(0), get(0) again (same object, no load), then get(1) (a new object).
C8_Witness ==
    /\ load_on_fly /\ Len(get_log) = 3
    /\ get_log[1].idx = 0 /\ get_log[2].idx = 0 /\ get_log[3].idx = 1
    /\ \A j \in 1..3 : get_log[j].exc = "none"
    /\ get_log[2].ret.oid = get_log[1].ret.oid
    /\ get_log[3].ret.oid # get_log[2].ret.oid

\* The recordings a container holds loaded: stored elements and the slot.
LoadedObjects ==
    {container[k].oid : k \in {h \in 1..Len(container) : container[h].loaded}}
        \cup (IF last_loaded.loaded THEN {last_loaded.oid} ELSE {})

\* C9: a lazy container never holds more than one loaded recording, which
\* is the one in the slot, and no get changes the stored sequence.
C9_OneHotAndSequenceUntouched ==
    /\ [](load_on_fly =>
            /\ Cardinality(LoadedObjects) <= 1
            /\ \A k \in 1..Len(container) : ~container[k].loaded)
    /\ [][load_on_fly /\ get_log' # get_log => container' = container]_vars

\* A lazy container after two materializations, the slot loaded.
C9_Witness ==
    /\ load_on_fly /\ Len(container) = 2 /\ Len(get_log) >= 2
    /\ get_log[1].idx = 0 /\ get_log[1].exc = "none"
    /\ get_log[2].idx = 1 /\ get_log[2].exc = "none"
    /\ last_loaded.loaded /\ last_loaded_idx = 1

\* ------------------------------------------------- helpers over the events
InCall == bpc # "idle"
Done == bpc = "br_done"
ReturnedNormally == Done /\ returned.tag # "raised"
Happened(name) == \E k \in 1..Len(events) : events[k].e = name
CountOf(name) == Cardinality({k \in 1..Len(events) : events[k].e = name})
IsRun(ev) == ev.e = "run"
RunEvents == SelectSeq(events, IsRun)
SaveStr == [tag |-> "str", s |-> "save"]
Callable == [tag |-> "callable"]

\* The entry batch_main is to append for the pass of a run event.
EntryOf(ev) ==
    PyTuple(RunResults(ev.loc, ev.fn),
            IF run_dict.keep_all_data THEN RunContainer(ev.loc)
            ELSE GetPropertySourceFile(RunContainer(ev.loc)))

\* C1: a call with idx=None, not check-only and overwrite=False that finds a
\* pickle under its name runs no pass and no batch_main, leaves the pickle
\* alone and returns what the pickle held when the call began, whatever the
\* run-configuration file holds now.
C1_CacheHitReturnsCached ==
    (/\ InCall
     /\ args.idx = NoIdx /\ ~args.only_check /\ ~args.overwrite
     /\ pickles_at_call[pickle_name] # NoFile)
    => /\ ~Happened("run") /\ ~Happened("batch_main")
       /\ pickles = pickles_at_call
       /\ Done => returned = PickleLoad(pickles_at_call[pickle_name])

\* A cache hit whose aggregate has another length than the run list the
\* run-configuration file holds now.
C1_Witness ==
    /\ Done /\ Happened("load_cache") /\ ~args.overwrite
    /\ returned.tag = "list" /\ Len(returned.items) = 2
    /\ Len(run_dict.run_list) = 1

\* C2: in isolation mode with results collected, the aggregate batch_main
\* returns holds exactly the entries of the passes that completed, in
\* iteration order, and none for a pass that raised.
IsCompletedRun(ev) == ev.e = "run" /\ ev.outcome = "ok"
CompletedEntries ==
    LET done == SelectSeq(events, IsCompletedRun)
    IN  [k \in 1..Len(done) |-> EntryOf(done[k])]
C2_AggregateOmitsFailed ==
    (/\ bpc = "br_persist"
     /\ args.idx = NoIdx /\ args.handle_errors
     /\ SaveInfo(run_dict.after_batch_fn))
    => all_info = PyList(CompletedEntries)

\* C3: in isolation mode no failing pass aborts the batch: batch_main runs a
\* pass for every entry of run_dict_list, logs each failure with its
\* iteration index and configuration path, and batch_run returns.
C3_IsolationNeverAborts ==
    (Done /\ args.idx = NoIdx /\ args.handle_errors /\ Happened("batch_main"))
    => /\ returned.tag # "raised"
       /\ Len(RunEvents) = Len(run_dict.run_list)
       /\ \A k \in 1..Len(events) :
            (events[k].e = "run" /\ events[k].outcome # "ok")
            => /\ k < Len(events)
               /\ events[k + 1].e = "log"
               /\ events[k + 1].i = events[k].i
               /\ events[k + 1].loc = events[k].loc

\* C4: in non-isolated mode the first pass that raises ends the call: nothing
\* is run after it, its exception leaves batch_run, and the pickle is not
\* written, the outputs are not merged and the callback is not invoked.
C4_NonIsolatedAborts ==
    (InCall /\ ~args.handle_errors)
    => \A k \in 1..Len(events) :
          (events[k].e = "run" /\ events[k].outcome # "ok")
          => /\ k = Len(events)
             /\ Done
             /\ returned = Raised(events[k].outcome)
             /\ pickles = pickles_at_call
             /\ ~Happened("write_cache") /\ ~Happened("csv_merge")
             /\ ~Happened("merge_files") /\ ~Happened("callback")

\* A non-isolated batch aborted by its second pass, with a third one left.
C4_Witness ==
    /\ Done /\ ~args.handle_errors /\ args.idx = NoIdx
    /\ returned.tag = "raised"
    /\ Len(RunEvents) = 2 /\ Len(run_dict.run_list) = 3
    /\ args.merge /\ run_dict.after_batch_fn = Callable

\* C5: a call that ran the batch itself for all indexes, not check-only,
\* leaves under its pickle name the aggregate it returns, and a call for the
\* same run configuration and function that follows it without overwrite
\* returns an equal aggregate; a call for a single index or a check-only
\* call leaves every pickle as it was.
C5_CacheHoldsAggregate ==
    /\ (ReturnedNormally /\ Happened("batch_main")
        /\ args.idx = NoIdx /\ ~args.only_check)
       => /\ IsFile(pickle_name)
          /\ PickleLoad(pickles[pickle_name]) = returned
    /\ (/\ ReturnedNormally /\ prev_call # NoCall
        /\ args.idx = NoIdx /\ ~args.only_check /\ ~args.overwrite
        /\ prev_call.run_dict_loc = args.run_dict_loc
        /\ prev_call.function_to_use = args.function_to_use)
       => returned = prev_call.returned
    /\ (InCall /\ (args.idx # NoIdx \/ args.only_check))
       => pickles = pickles_at_call

\* A call that returns, from the pickle, the non-empty aggregate of the call
\* before it.
C5_Witness ==
    /\ ReturnedNormally /\ prev_call # NoCall
    /\ args.idx = NoIdx /\ ~args.only_check /\ ~args.overwrite
    /\ Happened("load_cache")
    /\ returned = prev_call.returned
    /\ returned.tag = "list" /\ Len(returned.items) = 2

\* C6 as stated: the callback is invoked only when configured (not absent,
\* not "save"), never in a check-only call, never when the batch aborted,
\* otherwise exactly once, with the aggregate and the output directory, and
\* after the pickle was written and (when merging is on) the outputs were
\* merged in this call.
C6_CallbackAfterPersistAndMerge ==
    /\ \A k \in 1..Len(events) :
          events[k].e = "callback"
          => /\ ~args.only_check
             /\ run_dict.after_batch_fn = Callable
             /\ events[k].info = all_info /\ events[k].out_dir = out_dir
             /\ \E w \in 1..(k - 1) : events[w].e = "write_cache"
             /\ args.merge
                => \E m \in 1..(k - 1) : events[m].e = "merge_files"
    /\ Done =>
          CountOf("callback") =
             IF /\ returned.tag # "raised" /\ ~args.only_check
                /\ run_dict.after_batch_fn = Callable
             THEN 1 ELSE 0

\* C6 as the code has it: the callback is the last thing batch_run does
\* before it returns; whatever this call wrote to the pickle and merged came
\* before it, and a call that loaded the pickle or ran a single index
\* invokes it without writing or merging.
C6_CallbackLastStep ==
    /\ \A k \in 1..Len(events) :
          events[k].e = "callback"
          => /\ ~args.only_check
             /\ run_dict.after_batch_fn = Callable
             /\ events[k].info = all_info /\ events[k].out_dir = out_dir
             /\ k = Len(events)
             /\ Done /\ returned = all_info
             /\ (Happened("batch_main") /\ args.idx = NoIdx)
                => /\ \E w \in 1..(k - 1) : events[w].e = "write_cache"
                   /\ args.merge
                      => \E m \in 1..(k - 1) : events[m].e = "merge_files"
    /\ Done =>
          CountOf("callback") =
             IF /\ returned.tag # "raised" /\ ~args.only_check
                /\ run_dict.after_batch_fn = Callable
             THEN 1 ELSE 0

\* A callback invoked after this call wrote the pickle and merged.
C6_Witness ==
    /\ Done /\ Happened("write_cache") /\ Happened("merge_files")
    /\ Last(events).e = "callback"
    /\ Len(Last(events).info.items) = 2

\* The results the functions run on a recording returned, from the events.
RECURSIVE ResultsOfEvents(_, _)
ResultsOfEvents(evs, acc) ==
    IF evs = <<>> THEN acc
    ELSE ResultsOfEvents(Tail(evs),
             DictSet(acc, Head(evs).fn,
                     FnValue(Head(evs).fn, Head(evs).on, Head(evs).args)))
ReturnedFor(source_file) ==
    LET IsOn(ev) == ev.e = "fn" /\ ev.on = source_file
    IN  ResultsOfEvents(SelectSeq(m_events, IsOn), <<>>)

\* C7: when main has written the summary, every stored recording holds as
\* its results the values the functions run on it returned, with load_all
\* set or not.
C7_StoredRecordingsHoldResults ==
    summary # PyNone =>
      \A k \in 1..Len(container) :
          /\ container[k].results = ReturnedFor(container[k].source_file)
          /\ summary.rows[k].results = ReturnedFor(container[k].source_file)

\* The same, for the passes that index the container directly.
C7_HoldsWhenIndexedDirectly ==
    (summary # PyNone /\ ~m_in.load_all) =>
      \A k \in 1..Len(container) :
          /\ container[k].results = ReturnedFor(container[k].source_file)
          /\ summary.rows[k].results = ReturnedFor(container[k].source_file)

\* C10 (orchestrator part): a check-only pass that reaches the end of the
\* batch-setup step exits with status -1 there: no container is built, no
\* function is run, no summary is written.
C10_MainExitsBeforeContainer ==
    (mpc = "m_ended" /\ m_in.do_batch_setup /\ m_in.only_check
        /\ m_in.location_kind = "dir")
    => /\ m_exit = [tag |-> "exit", status |-> -1]
       /\ container = <<>> /\ base_dir = PyNone
       /\ \A k \in 1..Len(m_events) : m_events[k].e \notin {"setup", "fn", "get", "summary"}
       /\ summary = PyNone

\* C10 (batch part): the exit of a check-only pass ends the process: no
\* pass is run after it and batch_run does not return, in isolation mode
\* too.
C10_CheckOnlyExitTerminates ==
    InCall =>
      \A k \in 1..Len(events) :
          (events[k].e = "run" /\ events[k].outcome = "SystemExit")
          => /\ k = Len(events)
             /\ Done /\ returned = Raised("SystemExit")

\* ------------------------------------------------ helpers over main's events
IsFn(ev) == ev.e = "fn"
FnEvs == SelectSeq(m_events, IsFn)
IsSummary(ev) == ev.e = "summary"
SummaryEvs == SelectSeq(m_events, IsSummary)
\* The container was set up, and sorted if asked for: the pass is in its
\* loop or has ended after reaching it.
ContainerIsSetUp ==
    \/ mpc \in {"m_loop", "m_run"}
    \/ mpc = "m_ended" /\ base_dir # PyNone /\ m_exit # Raised("ValueError")

\* C11: the functions executed in a pass are, in order, a prefix of the
\* schedule "for each recording in container order, each function in list
\* order", each run on the recording at that position of the container,
\* whose order is the sorted one when a sort was asked for.
C11_ContainerThenListOrder ==
    (m_in # PyNone /\ ContainerIsSetUp) =>
      LET nf == Len(m_in.functions) IN
      /\ Len(FnEvs) <= Len(container) * nf
      /\ \A k \in 1..Len(FnEvs) :
           /\ FnEvs[k].i = (k - 1) \div nf
           /\ FnEvs[k].fn = m_in.functions[((k - 1) % nf) + 1]
           /\ FnEvs[k].on = container[FnEvs[k].i + 1].source_file
      /\ (m_in.sort_container_fn # "None") =>
           \A a \in 1..Len(container), b \in 1..Len(container) :
             a < b => IF m_in.reverse_sort
                      THEN SortKey(container[a]) >= SortKey(container[b])
                      ELSE SortKey(container[a]) <= SortKey(container[b])

\* A completed pass over two sorted recordings with the functions f, g.
C11_Witness ==
    /\ mpc = "m_ended" /\ m_exit.tag = "returned"
    /\ m_in.sort_container_fn # "None" /\ ~m_in.reverse_sort
    /\ Len(container) = 2
    /\ container[1].source_file # m_in.files[1].path
    /\ m_in.functions = <<"f", "g">>
    /\ Len(FnEvs) = 4

\* C12: the summary is written at most once, as the last step of a pass
\* that processed every recording, and once in every pass that returns; a
\* pass that raised wrote no summary and does nothing more.
C12_LinearPass ==
    /\ [](m_in # PyNone =>
            /\ Len(SummaryEvs) <= 1
            /\ Len(SummaryEvs) = 1 =>
                 /\ Last(m_events).e = "summary"
                 /\ m_exit.tag = "returned"
                 /\ summary # PyNone
                 /\ Len(FnEvs) = Len(container) * Len(m_in.functions)
            /\ m_exit.tag = "returned" => Len(SummaryEvs) = 1
            /\ m_exit.tag = "raised" =>
                 (Len(SummaryEvs) = 0 /\ summary = PyNone))
    /\ [][m_exit.tag = "raised" =>
            (m_events' = m_events /\ container' = container
                /\ summary' = summary)]_vars

\* An analysis function raised on the first of two recordings.
C12_Witness ==
    /\ m_exit = Raised("Exception")
    /\ Len(container) = 2 /\ Len(m_in.functions) = 2
    /\ Len(FnEvs) = 1
    /\ summary = PyNone

\* C19: when the functions of a recording are about to be bound the
\* handler's queue and results are empty; once bound, the queue holds the
\* bindings of that recording alone; and results a recording has been given
\* are not changed by any later step.
C19_HandlerResetBetweenRecordings ==
    /\ [](/\ mpc = "m_loop" => (fns_to_run = <<>> /\ handler_results = <<>>)
          /\ mpc = "m_run" =>
               /\ Len(fns_to_run) = Len(m_in.functions)
               /\ \A k \in 1..Len(fns_to_run) :
                    /\ fns_to_run[k].rec = recording
                    /\ fns_to_run[k].fn = m_in.functions[k])
    /\ [][/\ \A k \in 1..Len(container) :
               (container[k].results # <<>> /\ Len(container') = Len(container))
                   => container'[k].results = container[k].results
          /\ (last_loaded.results # <<>> /\ last_loaded'.oid = last_loaded.oid)
               => last_loaded'.results = last_loaded.results]_vars

\* The first of two recordings holds its results, the handler has been
\* reset and the second is about to be bound.
C19_Witness ==
    /\ mpc = "m_loop" /\ mi = 1
    /\ Len(container) = 2 /\ Len(m_in.functions) = 2
    /\ Len(container[1].results) > 0
    /\ fns_to_run = <<>> /\ handler_results = <<>>

\* ------------------------------------------------------- setup / auto_setup
SourceFiles(cont) == [k \in 1..Len(cont) |-> cont[k].source_file]

\* C13: no two stored recordings have the same source_file.
C13_UniqueBySourceFile ==
    \A a \in 1..Len(container), b \in 1..Len(container) :
        a # b => container[a].source_file # container[b].source_file

\* What C13 does hold for: the one setup call made on a new container.
C13_UniqueAfterOneSetup ==
    Len(setup_log) = 1 => C13_UniqueBySourceFile

\* A discovered file that setup is to turn into a stored recording.
IsValidParamFile(f) == f.base = ParamName /\ f.valid

\* C14: a setup call leaves the container as it was, followed by one
\* recording per discovered valid file named param_name, in discovery
\* order and built with load = not load_on_fly; base_dir is the given root
\* and the call returns the parameter files it found.
C14_SetupAppendsValidMatches ==
    setup_log # <<>> =>
      LET call == Last(setup_log)
          added == SelectSeq(call.filenames, IsValidParamFile)
          n == Len(call.before)
      IN /\ SubSeq(container, 1, n) = call.before
         /\ Len(container) = n + Len(added)
         /\ SubSeq(SourceFiles(container), n + 1, Len(container)) = Paths(added)
         /\ \A k \in (n + 1)..Len(container) :
              /\ container[k].loaded = ~load_on_fly
              /\ container[k].results = <<>>
         /\ base_dir = call.start_dir
         /\ \A k \in 1..Len(call.returned) :
              call.returned[k].base = ParamName

\* Matches a, b, c with c invalid: the new container holds [a, b].
C14_Witness ==
    /\ Len(setup_log) = 1
    /\ Len(setup_log[1].filenames) = 3
    /\ \A k \in 1..3 : setup_log[1].filenames[k].base = ParamName
    /\ setup_log[1].filenames[1].valid /\ setup_log[1].filenames[2].valid
    /\ ~setup_log[1].filenames[3].valid
    /\ SourceFiles(container) = <<1, 2>>
    /\ base_dir = setup_log[1].start_dir

\* ---------------------------------------------------------- the cache key
\* C15 as stated: two calls use the same cache entry exactly when they have
\* the same run-configuration path and the same function identifier.
C15_KeyIdentifiesPair ==
    \A a \in 1..Len(cache_calls), b \in 1..Len(cache_calls) :
        (cache_calls[a].entry = cache_calls[b].entry)
          <=> (/\ cache_calls[a].run_dict_loc = cache_calls[b].run_dict_loc
               /\ cache_calls[a].function_to_use = cache_calls[b].function_to_use)

\* What of a call's arguments reaches the name of its cache entry: the
\* parent of the run configuration's directory, and the configuration's
\* base name without extension followed by "--" and the function file's
\* base name when a function is given.
KeyParts(call) ==
    <<Front(Front(call.run_dict_loc)),
      Front(Last(call.run_dict_loc))
          \o (IF call.function_to_use = PyNone THEN <<>>
              ELSE <<"--">> \o Last(call.function_to_use.path))>>

\* C15 amended: two calls with the same pair use the same entry, and two
\* calls use the same entry exactly when they agree on the parent of the
\* configuration's directory and on the name built from the base names.
C15_KeyIsBuiltFromBaseNames ==
    \A a \in 1..Len(cache_calls), b \in 1..Len(cache_calls) :
        /\ (/\ cache_calls[a].run_dict_loc = cache_calls[b].run_dict_loc
            /\ cache_calls[a].function_to_use = cache_calls[b].function_to_use)
           => cache_calls[a].entry = cache_calls[b].entry
        /\ (cache_calls[a].entry = cache_calls[b].entry)
             <=> KeyParts(cache_calls[a]) = KeyParts(cache_calls[b])

\* Two calls for run configurations in different directories, with
\* function scripts in different directories, that share one entry.
C15_Witness ==
    /\ Len(cache_calls) = 2
    /\ Front(cache_calls[1].run_dict_loc) # Front(cache_calls[2].run_dict_loc)
    /\ cache_calls[1].function_to_use # PyNone
    /\ cache_calls[2].function_to_use # PyNone
    /\ cache_calls[1].function_to_use # cache_calls[2].function_to_use
    /\ cache_calls[1].entry = cache_calls[2].entry

\* ------------------------------------------------ merging, a single index
MergeHappened == Happened("csv_merge") \/ Happened("merge_files")

\* C16: the outputs are merged only in a call with merging enabled,
\* idx=None and not check-only that ran batch_main itself to its end, and
\* only right after that call wrote the aggregate to its cache entry:
\* csv_merge directly follows the write, merge_files follows csv_merge, and
\* neither happens after a cache load or in a call that raised.
C16_MergeOnlyAfterOwnFullBatch ==
    /\ MergeHappened =>
         /\ args.merge /\ args.idx = NoIdx /\ ~args.only_check
         /\ Happened("batch_main") /\ ~Happened("load_cache")
         /\ bpc \in {"br_after", "br_done"}
         /\ returned.tag # "raised"
         /\ pickles[pickle_name] = PickleDump(all_info)
         /\ Len(RunEvents) = Len(run_dict.run_list)
    /\ \A k \in 1..Len(events) :
         /\ events[k].e = "csv_merge" =>
              (k > 1 /\ events[k - 1].e = "write_cache")
         /\ events[k].e = "merge_files" =>
              (k > 1 /\ events[k - 1].e = "csv_merge")
    /\ CountOf("csv_merge") <= 1 /\ CountOf("merge_files") <= 1

\* A call that ran two passes, wrote the pickle and merged.
C16_Witness ==
    /\ Done /\ ReturnedNormally
    /\ Len(RunEvents) = 2
    /\ Happened("csv_merge") /\ Happened("merge_files")

\* C18: a call with an index selected loads no pickle, writes none and
\* merges nothing; it runs at most one pass, the one of run_list[idx], and
\* when it returns it has run that pass and returns what the pass returned.
C18_SingleIndexRunsOnePass ==
    (InCall /\ args.idx # NoIdx) =>
      /\ ~Happened("load_cache") /\ ~Happened("write_cache") /\ ~MergeHappened
      /\ pickles = pickles_at_call
      /\ Len(RunEvents) <= 1
      /\ \A k \in 1..Len(RunEvents) :
           /\ RunEvents[k].i = args.idx
           /\ args.idx < Len(run_dict.run_list)
           /\ RunEvents[k].loc = run_dict.run_list[args.idx + 1].batch_param_loc
      /\ ReturnedNormally =>
           /\ Len(RunEvents) = 1
           /\ RunEvents[1].outcome = "ok"
           /\ returned = PyTuple(RunResults(RunEvents[1].loc, RunEvents[1].fn),
                                 RunContainer(RunEvents[1].loc))

\* A call for index 1 of three run configurations that returned although a
\* cache entry existed and overwrite was not asked for.
C18_Witness ==
    /\ Done /\ ReturnedNormally
    /\ args.idx = 1 /\ ~args.overwrite /\ ~args.only_check /\ args.merge
    /\ Len(run_dict.run_list) = 3
    /\ pickles_at_call[pickle_name] # NoFile
    /\ Len(RunEvents) = 1

\* ------------------------------------------------- the round trip of a store
\* The string form a key is to be found under after the round trip.
StringForm(k) == IF k.tag = "int" THEN [tag |-> "str", s |-> IntText(k.n)] ELSE k
HasKey(d, k) == \E j \in 1..Len(d.items) : d.items[j].key = k
ValueAt(d, k) == d.items[CHOOSE j \in 1..Len(d.items) : d.items[j].key = k].value
KeysOnce(d) ==
    \A a \in 1..Len(d.items), b \in 1..Len(d.items) :
        a # b => d.items[a].key # d.items[b].key

\* The mapping read holds every value written, unchanged, under the string
\* form of its key, and holds nothing else.
RoundTripKeeps ==
    /\ KeysOnce(ph_read)
    /\ \A j \in 1..Len(ph_params.items) :
         /\ HasKey(ph_read, StringForm(ph_params.items[j].key))
         /\ ValueAt(ph_read, StringForm(ph_params.items[j].key))
               = ph_params.items[j].value
    /\ \A j \in 1..Len(ph_read.items) :
         \E h \in 1..Len(ph_params.items) :
            ph_read.items[j].key = StringForm(ph_params.items[h].key)

\* C17 as stated: write then read gives back every value under its key, a
\* non-string key under its string form.
C17_RoundTrip ==
    ph_read # PyNone => RoundTripKeeps

\* No two keys of the mapping written have the same string form.
StringFormsDiffer ==
    \A a \in 1..Len(ph_params.items), b \in 1..Len(ph_params.items) :
        a # b => StringForm(ph_params.items[a].key)
                     # StringForm(ph_params.items[b].key)

\* C17 amended: the same, for a mapping whose keys have pairwise different
\* string forms; two keys with one string form (0 and "0") are read back
\* as one key, whose value is one of the two values written.
C17_RoundTripOfDistinctKeys ==
    ph_read # PyNone =>
      /\ StringFormsDiffer => RoundTripKeeps
      /\ ~StringFormsDiffer =>
           /\ KeysOnce(ph_read)
           /\ Len(ph_read.items) = Len(ph_params.items) - 1
           /\ \A j \in 1..Len(ph_read.items) :
                \E h \in 1..Len(ph_params.items) :
                   /\ ph_read.items[j].key = StringForm(ph_params.items[h].key)
                   /\ ph_read.items[j].value = ph_params.items[h].value

\* The mapping of test_param_load, written and read back.
C17_Witness ==
    /\ ph_params = PyDict(<<Item(PyStr("hello_world"), PyStr("banana")),
                            Item(PyInt(0),
                                 PyList(<<PyInt(1), PyInt(10), PyFloat(141)>>)),
                            Item(PyStr("chans"),
                                 PyDict(<<Item(PyStr("1"), PyStr("b"))>>))>>)
    /\ ph_read # PyNone
    /\ ValueAt(ph_read, PyStr("0")) = PyList(<<PyInt(1), PyInt(10), PyFloat(141)>>)
    /\ ValueAt(ValueAt(ph_read, PyStr("chans")), PyStr("1")) = PyStr("b")

\* ------------------------------------------------- the slot under reordering
\* No load() has failed in the get calls logged.
NoLoadFailed(log) == \A j \in 1..Len(log) : log[j].exc # "LoadError"

\* C20: as long as no load() fails, every get(idx) of a position the
\* sequence has, when it returns on a lazy container, returns a loaded
\* recording of the source file of the element now at position idx.
C20_GetFollowsReordering ==
    [][(load_on_fly /\ get_log' # get_log /\ NoLoadFailed(get_log')
           /\ Last(get_log').exc = "none"
           /\ Last(get_log').idx < Len(container')) =>
          /\ Last(get_log').ret.loaded
          /\ Last(get_log').ret.source_file
                = container'[Last(get_log').idx + 1].source_file]_vars

\* What C20 does hold for: a get of an index other than the one last
\* materialized.
C20_HoldsForAnotherIndex ==
    [][(/\ load_on_fly /\ get_log' # get_log
        /\ Last(get_log').exc = "none"
        /\ Last(get_log').slot_idx_before # Last(get_log').idx) =>
          Last(get_log').ret.source_file
              = container'[Last(get_log').idx + 1].source_file]_vars

\* ------------------------------------------------- the slot after a failed load
\* C21: on a lazy container every get that returns, also one that follows a
\* get whose load() raised, returns a loaded recording of the source file
\* of the element at the index asked for.
C21_SlotConsistentAfterFailedLoad ==
    load_on_fly =>
      \A j \in 1..Len(get_log) :
        get_log[j].exc = "none" =>
          /\ get_log[j].ret.loaded
          /\ get_log[j].ret.source_file
                = container[get_log[j].idx + 1].source_file

\* What C21 does hold for: the gets made while no load() has failed.
C21_HoldsWhileLoadsSucceed ==
    (load_on_fly /\ NoLoadFailed(get_log)) =>
      \A j \in 1..Len(get_log) :
        get_log[j].exc = "none" =>
          /\ get_log[j].ret.loaded
          /\ get_log[j].ret.source_file
                = container[get_log[j].idx + 1].source_file

\* ------------------------------------------- batch_main and its run dicts
\* The position in events of the n-th entry into batch_main (0 if none).
BatchMainAt(n) ==
    LET at == {k \in 1..Len(events) : events[k].e = "batch_main"}
    IN IF Cardinality(at) < n THEN 0
       ELSE CHOOSE k \in at : Cardinality({h \in at : h <= k}) = n
\* The passes run by the n-th call of batch_main.
RunsOfCall(n) ==
    LET from == BatchMainAt(n)
        to == IF BatchMainAt(n + 1) = 0 THEN Len(events) + 1
              ELSE BatchMainAt(n + 1)
    IN SelectSeq(SubSeq(events, from + 1, to - 1), IsRun)
BatchMainOver == bpc \in {"br_persist", "br_done"} /\ Happened("batch_main")

\* C22: when batch_main is over, the run dicts of the list it was given are
\* as they were before the call, and a second call on the same list has run
\* the passes the first call ran.
C22_RunDictsUnchanged ==
    BatchMainOver =>
      /\ run_dict_list = run_dict.run_list
      /\ BatchMainAt(2) # 0 => RunsOfCall(2) = RunsOfCall(1)

\* What does hold: batch_main takes nothing but the two path keys off the
\* run dicts of the passes it ran, and leaves the list's length alone.
C22_OnlyPathKeysPopped ==
    /\ Len(run_dict_list) = (IF Happened("batch_main")
                             THEN Len(run_dict.run_list) ELSE 0)
    /\ \A k \in 1..Len(run_dict_list) :
         DOMAIN run_dict_list[k] \in
            { DOMAIN run_dict.run_list[k],
              DOMAIN run_dict.run_list[k] \ {"batch_param_loc", "fn_param_loc"} }

\* ------------------------------------------------- main's default args_fn
DefaultArgsFn == m_in # PyNone /\ m_in.args_fn = "None" /\ ContainerIsSetUp

\* C23: a pass made with args_fn = None does not fail for want of the
\* argument mapping: it binds every function with no extra arguments and,
\* when it returns, has run every function on every recording and written
\* the summary.
C23_DefaultArgsFnCompletes ==
    DefaultArgsFn =>
      /\ m_exit # Raised("UnboundLocalError")
      /\ \A k \in 1..Len(FnEvs) : FnEvs[k].args = <<>>
      /\ (mpc = "m_ended" /\ m_exit.tag = "returned") =>
           /\ Len(FnEvs) = Len(container) * Len(m_in.functions)
           /\ summary # PyNone

\* What the code does with args_fn = None: the pass returns only over an
\* empty container; over any other it ends in the first iteration, before
\* any function is bound or run, and writes no summary.
C23_DefaultArgsFnOnlyOnEmpty ==
    (DefaultArgsFn /\ mpc = "m_ended") =>
      IF Len(container) = 0
      THEN m_exit.tag = "returned" /\ summary # PyNone
      ELSE /\ m_exit = Raised("UnboundLocalError")
           /\ Len(FnEvs) = 0
           /\ summary = PyNone

\* --------------------------------------------------- the endings of main
\* How the pass of main ended, in MainOutcome's words.
EndOfMain ==
    IF m_exit.tag = "returned" THEN "ok"
    ELSE IF m_exit.tag = "exit" THEN "SystemExit"
    ELSE m_exit.exc

\* A pass of main ends as MainOutcome says for what main was given and some
\* behaviour of the callables, and never as it says for none.
MainEndsAsMainOutcome ==
    (m_in # PyNone /\ mpc = "m_ended") =>
      LET given == [args_fn |-> m_in.args_fn # "None",
                    sort_container_fn |-> m_in.sort_container_fn # "None",
                    load_all |-> m_in.load_all,
                    recordings |-> m_in.files # <<>>]
      IN EndOfMain \in
           { MainOutcome(m_in.location_kind, m_in.do_batch_setup,
                         m_in.only_check, given, raises) :
               raises \in MainRaises }
====
